---- MODULE Spec2Model ----
(***************************************************************************)
(* State-machine model of TextLocEnv (text_localization_environment/       *)
(* TextLocEnv.py): the episode state, step / reset, the trigger protocol,  *)
(* the reward engine and the IoU geometry.                                 *)
(*                                                                         *)
(* Conventions.                                                            *)
(*  - `self` is the TextLocEnv object: one record field per attribute.     *)
(*  - `ret` is the outcome of the last public call (reset or step): the    *)
(*    action passed, the reward and done flag returned, or the exception   *)
(*    raised.                                                              *)
(*  - Python floats are modelled as exact rationals <<num, den>> in lowest *)
(*    terms with den > 0; Python's None is the empty tuple.                *)
(*  - Python lists are sequences; list indices (image_index, the entries   *)
(*    of episode_masked_indices) are 1-based here and 0-based in Python.   *)
(*  - A box is <<x0, y0, x1, y1>>.                                         *)
(*  - The image is modelled by what the environment does to it: which      *)
(*    file it was opened from and the sequence of IoR marks drawn on it.   *)
(***************************************************************************)
EXTENDS Integers, Sequences, FiniteSets, TLC

VARIABLES self, ret

vars == <<self, ret>>

None == <<>>

----------------------------------------------------------------------------
(* Bounds of the model *)

\* step calls explored per episode (current_step is unbounded in the code)
MaxCalls == 3

\* the history_length the environment is constructed with
HistoryLength == 2

----------------------------------------------------------------------------
(* Exact rational arithmetic standing in for Python floats *)

Abs(n) == IF n < 0 THEN -n ELSE n

RECURSIVE GCD(_, _)
GCD(a, b) == IF b = 0 THEN a ELSE GCD(b, a % b)

Rat(n, d) ==
    LET g == GCD(Abs(n), Abs(d))
        sgn == IF d < 0 THEN -1 ELSE 1
    IN <<(sgn * n) \div g, (sgn * d) \div g>>

RatInt(n) == <<n, 1>>

RatLess(a, b) == a[1] * b[2] < b[1] * a[2]

RatAdd(a, b) == Rat(a[1] * b[2] + b[1] * a[2], a[2] * b[2])

RatSub(a, b) == Rat(a[1] * b[2] - b[1] * a[2], a[2] * b[2])

RatMul(a, b) == Rat(a[1] * b[1], a[2] * b[2])

\* Python's max(a, b): b only when it is strictly greater
RatMax(a, b) == IF RatLess(a, b) THEN b ELSE a

----------------------------------------------------------------------------
(* Class constants *)

ETA_TRIGGER == 70

ETA_TERMINATION == 10

DURATION_PENALTY == Rat(3, 100)

P_MASK == Rat(1, 2)

----------------------------------------------------------------------------
(* Construction inputs and external collaborators *)

ImageWidth == 2

ImageHeight == 2

\* true_bboxes: per image, its ground-truth boxes (already in [x0,y0,x1,y1]
\* form and already scaled). Image 1 has two boxes, image 2 one box, image 3 none.
TrueBBoxes ==
    << << <<0, 0, 1, 1>>, <<1, 1, 2, 2>> >>,
       << <<0, 0, 2, 1>> >>,
       << >> >>

ImageIndices == 1 .. Len(TrueBBoxes)

\* the window the bbox transformer is reset to
FullWindow == <<0, 0, ImageWidth, ImageHeight>>

\* the windows a transformer action can move the agent's bbox to
Windows ==
    { <<0, 0, 2, 2>>, <<0, 0, 1, 1>>, <<0, 1, 1, 2>>, <<1, 0, 2, 2>> }

\* ids of the bbox transformer's own actions (bbox_transformer.action_set)
TransformerActions == {0}

\* where a call of action id `action` can leave the transformer's bbox:
\* anywhere in Windows for one of its own actions
TransformerTargets(action) ==
    IF action \in TransformerActions THEN Windows ELSE {None}

\* outcomes of np_random.random() that the premasking test tells apart
RandomDraws == { Rat(1, 4), Rat(1, 2), Rat(3, 4) }

\* max_steps_per_image values the environment is constructed with
MaxStepsChoices == {-1, 2}

----------------------------------------------------------------------------
(* Action set *)

\* len(self.bbox_transformer.action_set)
n_actions == Cardinality(TransformerActions)

\* len(self.action_set) = action_space.n: the transformer's actions, then
\* trigger, then terminate when the termination action is configured
action_space_n(s) ==
    n_actions + 1 + (IF s.has_termination_action THEN 1 ELSE 0)

\* action_space.contains(action) of the Discrete space of step's assert
action_space_contains(s, action) ==
    action >= 0 /\ action < action_space_n(s)

is_trigger(s, action) == action = n_actions

is_termination(s, action) ==
    s.has_termination_action /\ action = n_actions + 1

\* the action ids step is called with: every valid id and invalid ones
\* on both sides of the range
ActionInputs == -1 .. (n_actions + 2)

----------------------------------------------------------------------------
(* History *)

to_one_hot(s, action) ==
    [i \in 1 .. action_space_n(s) |-> i = action + 1]

create_empty_history(s) ==
    [h \in 1 .. s.history_length |-> [i \in 1 .. action_space_n(s) |-> FALSE]]

\* the new entry appended at the end and the first entry dropped
push_history_at_end(s, action) ==
    [s EXCEPT !.history =
        SubSeq(@ \o <<to_one_hot(s, action)>>, 2, Len(@) + 1)]

\* history.insert(0, to_one_hot(action)); history.pop()
push_history(s, action) ==
    [s EXCEPT !.history =
        SubSeq(<<to_one_hot(s, action)>> \o @, 1, Len(@))]

----------------------------------------------------------------------------
(* Geometry and IoU *)

Min2(a, b) == IF a < b THEN a ELSE b

Max2(a, b) == IF a > b THEN a ELSE b

compute_intersection(bbox, other_bbox) ==
    LET left == Max2(bbox[1], other_bbox[1])
        top == Max2(bbox[2], other_bbox[2])
        right == Min2(bbox[3], other_bbox[3])
        bottom == Min2(bbox[4], other_bbox[4])
    IN IF right < left \/ bottom < top
       THEN 0
       ELSE (right - left) * (bottom - top)

\* intersection / union; None stands for the division by a zero union
compute_iou(bbox, other_bbox) ==
    LET intersection == compute_intersection(bbox, other_bbox)
        area_1 == (bbox[3] - bbox[1]) * (bbox[4] - bbox[2])
        area_2 == (other_bbox[3] - other_bbox[1]) * (other_bbox[4] - other_bbox[2])
        union == area_1 + area_2 - intersection
    IN IF union = 0 THEN None ELSE Rat(intersection, union)

episode_true_bboxes_unmasked(s) ==
    LET unmasked == { i \in 1 .. Len(s.episode_true_bboxes) :
                        \A k \in 1 .. Len(s.episode_masked_indices) :
                            s.episode_masked_indices[k] # i }
        RECURSIVE collect(_)
        collect(i) ==
            IF i > Len(s.episode_true_bboxes) THEN <<>>
            ELSE (IF i \in unmasked THEN <<s.episode_true_bboxes[i]>> ELSE <<>>)
                 \o collect(i + 1)
    IN collect(1)

\* the best IoU taken over every ground-truth box, masked or not
compute_best_iou_all(s) ==
    LET boxes == s.episode_true_bboxes
        RECURSIVE loop(_, _)
        loop(i, max_iou) ==
            IF i > Len(boxes) THEN max_iou
            ELSE loop(i + 1, RatMax(max_iou, compute_iou(s.bbox, boxes[i])))
    IN loop(1, RatInt(0))

compute_best_iou(s) ==
    LET boxes == episode_true_bboxes_unmasked(s)
        RECURSIVE loop(_, _)
        loop(i, max_iou) ==
            IF i > Len(boxes) THEN max_iou
            ELSE loop(i + 1, RatMax(max_iou, compute_iou(s.bbox, boxes[i])))
    IN loop(1, RatInt(0))

\* the search with the masked boxes not skipped
closest_true_bbox_any(s) ==
    LET RECURSIVE loop(_, _, _)
        loop(index, max_iou, best_box_index) ==
            IF index > Len(s.episode_true_bboxes) THEN best_box_index
            ELSE LET iou == compute_iou(s.bbox, s.episode_true_bboxes[index])
                 IN IF max_iou = None \/ max_iou = RatInt(0)
                          \/ RatLess(max_iou, iou)
                    THEN loop(index + 1, iou, index)
                    ELSE loop(index + 1, max_iou, best_box_index)
    IN loop(1, None, None)

\* the index this returns; the box returned with it is episode_true_bboxes[index]
closest_unmasked_true_bbox(s) ==
    LET RECURSIVE loop(_, _, _)
        loop(index, max_iou, best_box_index) ==
            IF index > Len(s.episode_true_bboxes) THEN best_box_index
            ELSE IF \E k \in 1 .. Len(s.episode_masked_indices) :
                        s.episode_masked_indices[k] = index
                 THEN loop(index + 1, max_iou, best_box_index)
                 ELSE LET iou == compute_iou(s.bbox, s.episode_true_bboxes[index])
                      IN \* `not max_iou` is true of None and of 0 alike
                         IF max_iou = None \/ max_iou = RatInt(0)
                               \/ RatLess(max_iou, iou)
                         THEN loop(index + 1, iou, index)
                         ELSE loop(index + 1, max_iou, best_box_index)
    IN loop(1, None, None)

episode_num_true_bboxes(s) ==
    IF Len(s.episode_true_bboxes) = 0 THEN None ELSE Len(s.episode_true_bboxes)

\* ImageMasker(...).mask(): the image with one more mark on it
create_ior_mark(s, bbox) ==
    [s EXCEPT !.episode_image.marks = Append(@, bbox)]

----------------------------------------------------------------------------
(* Actions of the action set *)

\* a bbox transformer action: moves the agent's window and nothing else
transformer_action(s, window) == [s EXCEPT !.bbox = window]

\* bbox_transformer.reset(width, height)
transformer_reset(s) == [s EXCEPT !.bbox = FullWindow]

\* the part of trigger that logs the prediction
trigger_log(s) ==
    [s EXCEPT !.num_triggers_used = @ + 1,
              !.episode_pred_bboxes = Append(@, s.bbox),
              !.post_step_handler = "_register_trigger_iou"]

\* the playout part without the transformer reset
trigger_playout_no_reset(s) ==
    IF s.mode = "train"
    THEN IF Len(episode_true_bboxes_unmasked(s)) > 0
         THEN LET index == closest_unmasked_true_bbox(s)
                  bbox == s.episode_true_bboxes[index]
              IN [create_ior_mark(s, bbox) EXCEPT
                    !.episode_masked_indices = Append(@, index)]
         ELSE s
    ELSE create_ior_mark(s, s.bbox)

\* the playout part taking the training branch in every mode
trigger_playout_any_mode(s) ==
    LET s2 ==
          IF Len(episode_true_bboxes_unmasked(s)) > 0
          THEN LET index == closest_unmasked_true_bbox(s)
                   bbox == s.episode_true_bboxes[index]
               IN [create_ior_mark(s, bbox) EXCEPT
                     !.episode_masked_indices = Append(@, index)]
          ELSE s
    IN transformer_reset(s2)

\* the playout part marking the window in every mode
trigger_playout_window_only(s) ==
    transformer_reset(create_ior_mark(s, s.bbox))

\* the part of trigger that runs when the episode is played out
trigger_playout(s) ==
    LET s2 ==
          IF s.mode = "train"
          THEN IF Len(episode_true_bboxes_unmasked(s)) > 0
               THEN LET index == closest_unmasked_true_bbox(s)
                        bbox == s.episode_true_bboxes[index]
                    IN [create_ior_mark(s, bbox) EXCEPT
                          !.episode_masked_indices = Append(@, index)]
               ELSE s
          ELSE create_ior_mark(s, s.bbox)
    IN transformer_reset(s2)

\* trigger without the early return of the no-playout branch
trigger_without_return(s) ==
    LET s1 == trigger_log(s)
    IN IF ~s1.playout_episode
       THEN trigger_playout([s1 EXCEPT !.done = TRUE])
       ELSE trigger_playout(s1)

\* trigger ending the episode whether or not it is played out
trigger_always_done(s) ==
    LET s1 == trigger_log(s)
    IN IF ~s1.playout_episode
       THEN [s1 EXCEPT !.done = TRUE]
       ELSE [trigger_playout(s1) EXCEPT !.done = TRUE]

trigger(s) ==
    LET s1 == trigger_log(s)
    IN IF ~s1.playout_episode
       THEN [s1 EXCEPT !.done = TRUE]
       ELSE trigger_playout(s1)

_register_trigger_iou(s) ==
    [s EXCEPT !.episode_trigger_ious = Append(@, s.iou)]

terminate(s) == [s EXCEPT !.done = TRUE]

\* self.action_set[action]()
dispatch(s, action, window) ==
    IF is_termination(s, action) THEN terminate(s)
    ELSE IF is_trigger(s, action) THEN trigger(s)
    ELSE transformer_action(s, window)

----------------------------------------------------------------------------
(* Reward *)

trigger_reward(iou, current_step) ==
    RatSub(RatMul(RatInt(ETA_TRIGGER), iou),
           RatMul(RatInt(current_step), DURATION_PENALTY))

\* the positive reward as soon as at least one trigger per box was used
termination_reward_at_least(s) ==
    IF s.num_triggers_used < Len(s.episode_true_bboxes)
    THEN RatMul(RatInt(-1), RatInt(ETA_TERMINATION))
    ELSE RatAdd(RatInt(ETA_TERMINATION),
                RatMul(RatInt(s.current_step), DURATION_PENALTY))

\* the reward of the termination branch, the ground truth being non-empty
termination_reward(s) ==
    LET pct_triggers_used ==
            Rat(s.num_triggers_used, Len(s.episode_true_bboxes))
    IN IF pct_triggers_used # RatInt(1)
       THEN RatMul(RatInt(-1), RatInt(ETA_TERMINATION))
       ELSE RatAdd(RatInt(ETA_TERMINATION),
                   RatMul(RatInt(s.current_step), DURATION_PENALTY))

\* the object after the call, the reward returned, the exception raised
calculate_reward(s, action) ==
    IF s.has_termination_action /\ is_termination(s, action)
    THEN IF Len(s.episode_true_bboxes) = 0
         THEN [self |-> s, reward |-> None, raised |-> "ZeroDivisionError"]
         ELSE [self |-> s, reward |-> termination_reward(s), raised |-> "none"]
    ELSE IF is_trigger(s, action)
         THEN [self |-> s,
               reward |-> trigger_reward(s.iou, s.current_step),
               raised |-> "none"]
         ELSE [self |-> [s EXCEPT !.iou = compute_best_iou(s)],
               reward |-> RatInt(0),
               raised |-> "none"]

----------------------------------------------------------------------------
(* step *)

\* max_iou overwritten with the current iou
update_max_iou_overwriting(s) == [s EXCEPT !.max_iou = s.iou]

update_max_iou(s) == [s EXCEPT !.max_iou = RatMax(s.iou, s.max_iou)]

\* the handler executed but left registered
run_post_step_handler_keeping(s) ==
    IF s.post_step_handler # "None"
    THEN _register_trigger_iou(s)
    ELSE s

\* execute and remove any registered post-step handler
run_post_step_handler(s) ==
    IF s.post_step_handler # "None"
    THEN [_register_trigger_iou(s) EXCEPT !.post_step_handler = "None"]
    ELSE s

\* done assigned from the step-limit test instead of only being raised by it
apply_step_limit_assigning(s) ==
    [s EXCEPT !.done =
        s.max_steps_per_image # -1 /\ s.current_step >= s.max_steps_per_image]

\* the step limit tested with > in place of >=
apply_step_limit_late(s) ==
    IF s.max_steps_per_image # -1 /\ s.current_step > s.max_steps_per_image
    THEN [s EXCEPT !.done = TRUE]
    ELSE s

\* terminate the episode after reaching the step limit (if set)
apply_step_limit(s) ==
    IF s.max_steps_per_image # -1 /\ s.current_step >= s.max_steps_per_image
    THEN [s EXCEPT !.done = TRUE]
    ELSE s

\* the lookup in action_set failing after the step counter was incremented
step_rejected_after_increment(s, action) ==
    [self |-> [s EXCEPT !.current_step = @ + 1],
     ret |-> [call |-> "step", action |-> action, reward |-> None,
              done |-> s.done, raised |-> "AssertionError"]]

\* step's assert failing: nothing has been touched yet
step_rejected(s, action) ==
    [self |-> s,
     ret |-> [call |-> "step", action |-> action, reward |-> None,
              done |-> s.done, raised |-> "AssertionError"]]

\* the object after step(action) and what the call gave back; `window` is
\* where the transformer moves the bbox to when `action` is one of its own
step(s, action, window) ==
    IF ~action_space_contains(s, action)
    THEN step_rejected(s, action)
    ELSE LET s1 == [s EXCEPT !.current_step = @ + 1]
             s2 == dispatch(s1, action, window)
             r == calculate_reward(s2, action)
         IN IF r.raised # "none"
            THEN [self |-> r.self,
                  ret |-> [call |-> "step", action |-> action, reward |-> None,
                           done |-> r.self.done, raised |-> r.raised]]
            ELSE LET s3 == update_max_iou(r.self)
                     s4 == push_history(s3, action)
                     s5 == run_post_step_handler(s4)
                     s6 == apply_step_limit(s5)
                 IN [self |-> s6,
                     ret |-> [call |-> "step", action |-> action,
                              reward |-> r.reward, done |-> s6.done,
                              raised |-> "none"]]

----------------------------------------------------------------------------
(* reset *)

\* the premasking loop with a floor of 0 unmasked boxes in every configuration
RECURSIVE premask_without_floor(_, _, _, _)
premask_without_floor(s, idx, num_unmasked, draws) ==
    IF idx > Len(s.episode_true_bboxes) THEN s
    ELSE IF num_unmasked > 0 /\ ~RatLess(P_MASK, draws[idx])
         THEN premask_without_floor(
                 [create_ior_mark(s, s.episode_true_bboxes[idx]) EXCEPT
                     !.episode_masked_indices = Append(@, idx)],
                 idx + 1, num_unmasked - 1, draws)
         ELSE premask_without_floor(s, idx + 1, num_unmasked, draws)

\* the premasking loop from ground-truth box idx on; draws[idx] is the
\* value np_random.random() returns for box idx
RECURSIVE premask(_, _, _, _)
premask(s, idx, num_unmasked, draws) ==
    IF idx > Len(s.episode_true_bboxes) THEN s
    ELSE LET mask_rand == draws[idx]
             min_unmasked == IF s.has_termination_action THEN 0 ELSE 1
         IN IF num_unmasked > min_unmasked /\ ~RatLess(P_MASK, mask_rand)
            THEN premask([create_ior_mark(s, s.episode_true_bboxes[idx]) EXCEPT
                             !.episode_masked_indices = Append(@, idx)],
                         idx + 1, num_unmasked - 1, draws)
            ELSE premask(s, idx + 1, num_unmasked, draws)

\* the image opened and the state tied to it left from the last episode
\* without episode_masked_indices being cleared
reset_load_keeping_masks(s, image_index) ==
    [s EXCEPT !.history = create_empty_history(s),
              !.episode_image = [path |-> image_index, marks |-> <<>>],
              !.episode_true_bboxes = TrueBBoxes[image_index]]

\* the first part of reset: empty history, the image opened, its boxes
\* loaded, episode_masked_indices cleared
reset_load(s, image_index) ==
    [s EXCEPT !.history = create_empty_history(s),
              !.episode_image = [path |-> image_index, marks |-> <<>>],
              !.episode_true_bboxes = TrueBBoxes[image_index],
              !.episode_masked_indices = <<>>]

reset(s, image_index, draws) ==
    LET s1 == reset_load(s, image_index)
        s2 == IF s1.mode = "train" /\ s1.premasking
              THEN premask(s1, 1, episode_num_true_bboxes(s1), draws)
              ELSE s1
        s3 == [s2 EXCEPT !.episode_pred_bboxes = <<>>,
                         !.episode_trigger_ious = <<>>,
                         !.num_triggers_used = 0,
                         !.current_step = 0]
        s4 == [transformer_reset(s3) EXCEPT !.done = FALSE]
        s5 == [s4 EXCEPT !.iou = compute_best_iou(s4)]
    IN [s5 EXCEPT !.max_iou = s5.iou]

\* the random draws one reset can make: one per ground-truth box when the
\* premasking loop runs, none otherwise
DrawSeqs(s, image_index) ==
    IF s.mode = "train" /\ s.premasking
    THEN [1 .. Len(TrueBBoxes[image_index]) -> RandomDraws]
    ELSE {<<>>}

----------------------------------------------------------------------------
(* Construction *)

\* the attributes __init__ sets before it calls reset
\* (args: the keyword arguments of the constructor)
constructed(args) ==
    [mode |-> args.mode,
     premasking |-> args.premasking,
     playout_episode |-> args.playout_episode,
     max_steps_per_image |-> args.max_steps_per_image,
     has_termination_action |-> args.has_termination_action,
     history_length |-> args.history_length,
     post_step_handler |-> "None",
     episode_image |-> None,
     episode_true_bboxes |-> None,
     episode_pred_bboxes |-> None,
     episode_trigger_ious |-> None,
     episode_masked_indices |-> <<>>,
     num_triggers_used |-> 0,
     current_step |-> 0,
     bbox |-> None,
     history |-> None,
     done |-> FALSE,
     iou |-> None,
     max_iou |-> None]

reset_ret(s) ==
    [call |-> "reset", action |-> -1, reward |-> None, done |-> s.done,
     raised |-> "none"]

Init ==
    \E mode \in {"train", "eval"}, playout_episode \in BOOLEAN,
       premasking \in BOOLEAN, has_termination_action \in BOOLEAN,
       max_steps_per_image \in MaxStepsChoices,
       image_index \in ImageIndices :
        LET s == constructed(
                     [mode |-> mode,
                      playout_episode |-> playout_episode,
                      premasking |-> premasking,
                      max_steps_per_image |-> max_steps_per_image,
                      has_termination_action |-> has_termination_action,
                      history_length |-> HistoryLength])
        IN \E draws \in DrawSeqs(s, image_index) :
              /\ self = reset(s, image_index, draws)
              /\ ret = reset_ret(self)

----------------------------------------------------------------------------
(* Next-state relation *)

Reset ==
    \E image_index \in ImageIndices :
        \E draws \in DrawSeqs(self, image_index) :
            /\ self' = reset(self, image_index, draws)
            /\ ret' = reset_ret(self')

Step ==
    /\ self.current_step < MaxCalls
    /\ \E action \in ActionInputs :
          \E window \in TransformerTargets(action) :
             LET r == step(self, action, window)
             IN /\ self' = r.self
                /\ ret' = r.ret

Next == Reset \/ Step

Spec == Init /\ [][Next]_vars

----------------------------------------------------------------------------
(* compute_iou on arbitrary boxes, degenerate ones included *)

\* coordinates of the boxes tried
GridMax == 2

\* every box x0 <= x1, y0 <= y1 on the grid
GridBoxes ==
    { b \in (0 .. GridMax) \X (0 .. GridMax) \X (0 .. GridMax) \X (0 .. GridMax) :
        b[1] <= b[3] /\ b[2] <= b[4] }

\* float('nan')
NaN == <<0, 0>>

\* what a call compute_iou(other_bbox) with window bbox gives back. A zero
\* union divides by zero: ZeroDivisionError on Python numbers, nan (and a
\* RuntimeWarning) on numpy scalars, the transformer deciding which bbox is.
compute_iou_outcomes(bbox, other_bbox) ==
    IF compute_iou(bbox, other_bbox) = None
    THEN { [call |-> "compute_iou", value |-> None,
            raised |-> "ZeroDivisionError"],
           [call |-> "compute_iou", value |-> NaN, raised |-> "none"] }
    ELSE { [call |-> "compute_iou", value |-> compute_iou(bbox, other_bbox),
            raised |-> "none"] }

InitIoU ==
    /\ self \in [bbox : GridBoxes, other_bbox : GridBoxes]
    /\ ret = [call |-> "none", value |-> None, raised |-> "none"]

ComputeIoU ==
    /\ ret' \in compute_iou_outcomes(self.bbox, self.other_bbox)
    /\ self' = self

\* the transformer moves the window
MoveWindow ==
    /\ self' \in [bbox : GridBoxes, other_bbox : {self.other_bbox}]
    /\ ret' = [call |-> "none", value |-> None, raised |-> "none"]

NextIoU == ComputeIoU \/ MoveWindow

SpecIoU == InitIoU /\ [][NextIoU]_vars

----------------------------------------------------------------------------
(* Vocabulary of the properties *)

TriggerId == n_actions

TerminateId == n_actions + 1

\* this transition is a step call with action id a that returned
StepReturned(a) ==
    /\ ret'.call = "step"
    /\ ret'.action = a
    /\ ret'.raised = "none"
    /\ self'.current_step = self.current_step + 1

\* the last call was a step with action id a that returned
LastStepReturned(a) ==
    /\ ret.call = "step"
    /\ ret.action = a
    /\ ret.raised = "none"

\* indices of the ground-truth boxes of s that are not masked
UnmaskedIndices(s) ==
    { i \in 1 .. Len(s.episode_true_bboxes) :
        \A k \in 1 .. Len(s.episode_masked_indices) :
            s.episode_masked_indices[k] # i }

\* the greatest IoU of box against the unmasked ground-truth boxes of s
BestIoUOf(s, box) ==
    IF UnmaskedIndices(s) = {} THEN RatInt(0)
    ELSE CHOOSE v \in { compute_iou(box, s.episode_true_bboxes[i]) :
                          i \in UnmaskedIndices(s) } :
            \A i \in UnmaskedIndices(s) :
                ~RatLess(v, compute_iou(box, s.episode_true_bboxes[i]))

----------------------------------------------------------------------------
(* C1 *)

\* C1: on every trigger step the reward is ETA_TRIGGER * currentIoU -
\* currentStep * DURATION_PENALTY, with currentStep counted after the step's
\* increment and currentIoU the best IoU of the box this step appended to
\* episode_pred_bboxes against the ground-truth boxes unmasked when the
\* trigger was issued.
C1_TriggerRewardIsForTriggeredBox ==
    [][StepReturned(TriggerId) =>
         LET box == self'.episode_pred_bboxes[Len(self'.episode_pred_bboxes)]
         IN ret'.reward =
               trigger_reward(BestIoUOf(self, box), self'.current_step)]_vars

----------------------------------------------------------------------------
(* C2 *)

\* the unmasked index with the greatest IoU against the bbox of s, the
\* earliest one when several share it
EarliestBestIndex(s) ==
    CHOOSE i \in UnmaskedIndices(s) :
        /\ \A j \in UnmaskedIndices(s) :
              ~RatLess(compute_iou(s.bbox, s.episode_true_bboxes[i]),
                       compute_iou(s.bbox, s.episode_true_bboxes[j]))
        /\ \A j \in UnmaskedIndices(s) :
              (j < i) =>
                 RatLess(compute_iou(s.bbox, s.episode_true_bboxes[j]),
                         compute_iou(s.bbox, s.episode_true_bboxes[i]))

\* C2: a training-mode playout trigger with an unmasked ground-truth box
\* masks the unmasked box of greatest IoU against the bbox, the earliest
\* index among equals, the all-zero case included.
C2_MasksEarliestBestBox ==
    [][(/\ StepReturned(TriggerId)
        /\ self.mode = "train"
        /\ self.playout_episode
        /\ UnmaskedIndices(self) # {})
       => self'.episode_masked_indices =
             Append(self.episode_masked_indices, EarliestBestIndex(self))]_vars

----------------------------------------------------------------------------
(* C3 *)

\* C3: a step call with an action id outside 0 .. n-1 (n the size of the
\* action set) raises and leaves every attribute of the environment as it
\* was; with termination disabled the id one past trigger is such an id.
C3_InvalidActionLeavesStateUnchanged ==
    [][(/\ ret'.call = "step"
        /\ \/ ret'.action < 0
           \/ ret'.action > (IF self.has_termination_action
                             THEN TerminateId ELSE TriggerId))
       => (ret'.raised = "AssertionError" /\ self' = self)]_vars

\* an invalid id one past trigger was rejected in the middle of an episode
C3_Witness ==
    /\ ret.call = "step"
    /\ ret.raised = "AssertionError"
    /\ ~self.has_termination_action
    /\ ret.action = TriggerId + 1
    /\ self.current_step > 0
    /\ self.num_triggers_used > 0

----------------------------------------------------------------------------
(* C4 *)

\* C4: with termination enabled, a terminate step that returns gives
\* -ETA_TERMINATION when num_triggers_used differs from the number of
\* ground-truth boxes (fewer or more) and ETA_TERMINATION + current_step *
\* DURATION_PENALTY when they are equal, current_step counting this step;
\* no other reward rule applies to it.
C4_TerminateReward ==
    (self.has_termination_action /\ LastStepReturned(TerminateId)) =>
        ret.reward =
            IF self.num_triggers_used # Len(self.episode_true_bboxes)
            THEN <<-10, 1>>
            ELSE Rat(1000 + 3 * self.current_step, 100)

\* terminate was rewarded after exactly one trigger per box of a two-box image
C4_Witness ==
    /\ self.has_termination_action
    /\ LastStepReturned(TerminateId)
    /\ Len(self.episode_true_bboxes) = 2
    /\ self.num_triggers_used = 2
    /\ self.current_step = 3
    /\ ret.reward = <<1009, 100>>

----------------------------------------------------------------------------
(* C5 *)

\* C5: a trigger step with playout_episode = FALSE returns done = TRUE on
\* that step and masks nothing and resets no window: episode_masked_indices,
\* the image and the bbox are as before the step, in train and eval mode.
C5_TriggerWithoutPlayoutEndsEpisode ==
    [][(StepReturned(TriggerId) /\ ~self.playout_episode)
       => /\ ret'.done
          /\ self'.done
          /\ self'.episode_masked_indices = self.episode_masked_indices
          /\ self'.episode_image = self.episode_image
          /\ self'.bbox = self.bbox]_vars

\* a first trigger ended an eval episode away from the full window
C5_Witness ==
    /\ LastStepReturned(TriggerId)
    /\ ~self.playout_episode
    /\ self.mode = "eval"
    /\ self.max_steps_per_image = -1
    /\ self.num_triggers_used = 1
    /\ self.bbox # FullWindow
    /\ self.done

----------------------------------------------------------------------------
(* C6 *)

\* the step limit is configured and current_step has reached it
AtStepLimit(s) ==
    s.max_steps_per_image # -1 /\ s.current_step >= s.max_steps_per_image

\* C6: done goes from FALSE to TRUE only in a step whose action is
\* terminate, or trigger with playout_episode = FALSE, or in which
\* current_step reaches the step limit; a transformer action or a playout
\* trigger below the limit never sets done.
C6_DoneOnlyByTerminateTriggerOrLimit ==
    [][(~self.done /\ self'.done)
       => /\ ret'.call = "step"
          /\ self'.current_step = self.current_step + 1
          /\ \/ self.has_termination_action /\ ret'.action = TerminateId
             \/ ret'.action = TriggerId /\ ~self.playout_episode
             \/ AtStepLimit(self')]_vars

\* two playout triggers and nothing else: only the step limit ended the episode
C6_Witness ==
    /\ LastStepReturned(TriggerId)
    /\ self.playout_episode
    /\ self.max_steps_per_image = 2
    /\ self.current_step = 2
    /\ self.num_triggers_used = 2
    /\ self.done

----------------------------------------------------------------------------
(* C7 *)

\* C7: once done is TRUE every later step of the episode reports done =
\* TRUE; only a reset call brings done back to FALSE.
C7_DoneIsTerminal ==
    [][/\ (self.done /\ ~self'.done) => ret'.call = "reset"
       /\ (self.done /\ ret'.call = "step" /\ ret'.raised = "none")
             => ret'.done]_vars

\* a transformer step taken after the episode had ended, with no step limit
C7_Witness ==
    /\ ret.call = "step"
    /\ ret.action \in TransformerActions
    /\ ret.raised = "none"
    /\ self.max_steps_per_image = -1
    /\ self.current_step = 3
    /\ self.done
    /\ ret.done

----------------------------------------------------------------------------
(* C8 *)

\* C8: with a step budget N configured, the step that brings current_step to
\* N or beyond returns done = TRUE, so the episode is done whenever N steps
\* have been taken since reset; with max_steps_per_image = -1 done is set
\* only by terminate or by a trigger without playout.
C8_StepBudgetForcesDone ==
    /\ [](AtStepLimit(self) => self.done)
    /\ [][(ret'.call = "step" /\ ret'.raised = "none" /\ AtStepLimit(self'))
          => ret'.done]_vars
    /\ [][(self.max_steps_per_image = -1 /\ ~self.done /\ self'.done)
          => \/ self.has_termination_action /\ ret'.action = TerminateId
             \/ ret'.action = TriggerId /\ ~self.playout_episode]_vars

\* transformer actions alone, and the budget ended the episode at step N
C8_Witness ==
    /\ ret.call = "step"
    /\ ret.action \in TransformerActions
    /\ ret.raised = "none"
    /\ self.max_steps_per_image = 2
    /\ self.current_step = 2
    /\ self.num_triggers_used = 0
    /\ ~self.has_termination_action
    /\ ret.done

----------------------------------------------------------------------------
(* C9 *)

\* C9: within an episode max_iou never decreases, and it is the running
\* maximum of iou: equal to iou after reset, and after every step the
\* greater of its previous value and the iou the step left.
C9_MaxIoUIsRunningMaximum ==
    [][/\ ret'.call = "reset" => self'.max_iou = self'.iou
       /\ ret'.call = "step" =>
             /\ ~RatLess(self'.max_iou, self.max_iou)
             /\ ~RatLess(self'.max_iou, self'.iou)
             /\ self'.max_iou \in {self.max_iou, self'.iou}]_vars

\* a transformer step lowered iou below the maximum kept from earlier steps
C9_Witness ==
    /\ ret.call = "step"
    /\ ret.action \in TransformerActions
    /\ ret.raised = "none"
    /\ self.current_step >= 2
    /\ RatLess(self.iou, self.max_iou)
    /\ RatLess(RatInt(0), self.iou)

----------------------------------------------------------------------------
(* C10 *)

\* the one-hot vector of action id a among n ids
OneHot(a, n) == [i \in 1 .. n |-> i = a + 1]

NumActionIds(s) == IF s.has_termination_action THEN TerminateId + 1
                   ELSE TriggerId + 1

\* C10: history always has history_length entries; after reset they are all
\* all-false; after a step the first entry is the one-hot encoding of the
\* action taken and entry i + 1 is the previous entry i, the oldest dropped.
C10_HistoryIsRollingWindow ==
    /\ [](Len(self.history) = self.history_length)
    /\ [](ret.call = "reset" =>
             \A h \in 1 .. Len(self.history) :
                 self.history[h] = [i \in 1 .. NumActionIds(self) |-> FALSE])
    /\ [][\A a \in ActionInputs :
             StepReturned(a) =>
                /\ self'.history[1] = OneHot(a, NumActionIds(self))
                /\ \A h \in 2 .. self.history_length :
                      self'.history[h] = self.history[h - 1]]_vars

\* three steps into an episode the window holds the last two actions, the
\* trigger before the latest transformer action
C10_Witness ==
    /\ self.current_step = 3
    /\ LastStepReturned(0)
    /\ Len(self.history) = 2
    /\ self.history[1] = OneHot(0, NumActionIds(self))
    /\ self.history[2] = OneHot(TriggerId, NumActionIds(self))

----------------------------------------------------------------------------
(* C11 *)

\* the indices held by the list episode_masked_indices of s
MaskedSet(s) ==
    { s.episode_masked_indices[k] : k \in 1 .. Len(s.episode_masked_indices) }

----------------------------------------------------------------------------
(* C12 *)

\* C12: after every call episode_pred_bboxes and episode_trigger_ious have
\* num_triggers_used entries each, no post-step handler stays registered,
\* and after a trigger step the IoU logged last is the one its reward was
\* computed from.
C12_TriggerLogsMatchTriggerCount ==
    /\ Len(self.episode_pred_bboxes) = self.num_triggers_used
    /\ Len(self.episode_trigger_ious) = self.num_triggers_used
    /\ self.post_step_handler = "None"
    /\ LastStepReturned(TriggerId) =>
          ret.reward =
             trigger_reward(
                self.episode_trigger_ious[Len(self.episode_trigger_ious)],
                self.current_step)

\* a second trigger was logged, with a positive IoU
C12_Witness ==
    /\ LastStepReturned(TriggerId)
    /\ self.num_triggers_used = 2
    /\ Len(self.episode_trigger_ious) = 2
    /\ RatLess(RatInt(0), self.episode_trigger_ious[2])

----------------------------------------------------------------------------
(* C13 *)

\* C13: after reset in training mode with premasking, termination disabled
\* and at least one ground-truth box, at least one box is unmasked whatever
\* the random draws were; in eval mode or with premasking disabled nothing
\* is masked after reset.
C13_PremaskingKeepsFloor ==
    ret.call = "reset" =>
        /\ (/\ self.mode = "train"
            /\ self.premasking
            /\ ~self.has_termination_action
            /\ Len(self.episode_true_bboxes) > 0)
              => UnmaskedIndices(self) # {}
        /\ (self.mode = "eval" \/ ~self.premasking)
              => self.episode_masked_indices = <<>>

\* premasking without termination masked one of two boxes and stopped there
C13_Witness ==
    /\ ret.call = "reset"
    /\ self.mode = "train"
    /\ self.premasking
    /\ ~self.has_termination_action
    /\ Len(self.episode_true_bboxes) = 2
    /\ self.episode_masked_indices = <<1>>

\* with termination enabled premasking can mask every box
C13_AllMaskedWithTermination ==
    /\ ret.call = "reset"
    /\ self.has_termination_action
    /\ Len(self.episode_true_bboxes) = 2
    /\ UnmaskedIndices(self) = {}

----------------------------------------------------------------------------
(* C14 *)

\* C14: a terminate step on an episode whose ground-truth collection is
\* empty returns no reward: the empty collection is detected before the
\* ratio of triggers used is computed and reported to the caller as an
\* EmptyGroundTruth error.
C14_EmptyGroundTruthIsGuarded ==
    (/\ ret.call = "step"
     /\ self.has_termination_action
     /\ ret.action = TerminateId
     /\ Len(self.episode_true_bboxes) = 0)
    => (ret.reward = None /\ ret.raised = "EmptyGroundTruth")

----------------------------------------------------------------------------
(* C15 *)

Area(b) == (b[3] - b[1]) * (b[4] - b[2])

\* C15: the IoU of a zero-area box against any box, another zero-area box
\* included, is 0 and the call raises nothing, whether the window or the
\* other box is the degenerate one.
C15_DegenerateIoUIsZero ==
    (/\ ret.call = "compute_iou"
     /\ (Area(self.bbox) = 0 \/ Area(self.other_bbox) = 0))
    => (ret.raised = "none" /\ ret.value = RatInt(0))

----------------------------------------------------------------------------
(* C16 *)

\* C16: a transformer-action step returns reward 0, sets iou to the greatest
\* IoU of the new bbox against the ground-truth boxes whose index is not
\* masked (0 when none is), and leaves episode_masked_indices, the logs of
\* predicted boxes and trigger IoUs, num_triggers_used and the image as they
\* were; done changes only through the step limit.
C16_TransformerStepFrame ==
    [][\A a \in TransformerActions :
          StepReturned(a) =>
             /\ ret'.reward = RatInt(0)
             /\ self'.iou = BestIoUOf(self, self'.bbox)
             /\ self'.episode_masked_indices = self.episode_masked_indices
             /\ self'.episode_pred_bboxes = self.episode_pred_bboxes
             /\ self'.episode_trigger_ious = self.episode_trigger_ious
             /\ self'.num_triggers_used = self.num_triggers_used
             /\ self'.episode_image = self.episode_image
             /\ self'.done = (self.done \/ AtStepLimit(self'))]_vars

\* the window sits exactly on a masked box: iou counts the other box only
C16_Witness ==
    /\ \E a \in TransformerActions : LastStepReturned(a)
    /\ Len(self.episode_true_bboxes) = 2
    /\ self.episode_masked_indices = <<1>>
    /\ self.bbox = self.episode_true_bboxes[1]
    /\ self.iou = RatInt(0)

----------------------------------------------------------------------------
(* C17 *)

\* C17: a playout trigger step adds exactly one index to
\* episode_masked_indices in training mode when a ground-truth box is
\* unmasked and none when all are masked, leaves bbox at the full image
\* window in both modes, and does not set done below the step limit.
C17_PlayoutTriggerMasksOneAndResetsWindow ==
    [][(StepReturned(TriggerId) /\ self.playout_episode) =>
          /\ (self.mode = "train" /\ UnmaskedIndices(self) # {}) =>
                /\ Len(self'.episode_masked_indices)
                      = Len(self.episode_masked_indices) + 1
                /\ UnmaskedIndices(self) \ UnmaskedIndices(self')
                      = { self'.episode_masked_indices[
                             Len(self'.episode_masked_indices)] }
          /\ (self.mode = "train" /\ UnmaskedIndices(self) = {}) =>
                self'.episode_masked_indices = self.episode_masked_indices
          /\ self'.bbox = <<0, 0, ImageWidth, ImageHeight>>
          /\ (~self.done /\ ~AtStepLimit(self')) => ~self'.done]_vars

\* a second training trigger found the only box already masked; the first
\* one was issued away from the full window
C17_Witness ==
    /\ LastStepReturned(TriggerId)
    /\ self.playout_episode
    /\ self.mode = "train"
    /\ ~self.premasking
    /\ Len(self.episode_true_bboxes) = 1
    /\ self.episode_masked_indices = <<1>>
    /\ self.num_triggers_used = 2
    /\ self.episode_pred_bboxes[1] # FullWindow
    /\ self.bbox = FullWindow
    /\ ~self.done

----------------------------------------------------------------------------
(* C18 *)

\* C18: in eval mode a playout trigger marks the image at the bbox itself,
\* no step changes episode_masked_indices, which stays empty for the whole
\* episode, and every ground-truth box counts when iou is computed, one that
\* was triggered on included.
C18_EvalMasksWindowOnly ==
    /\ [](self.mode = "eval" => self.episode_masked_indices = <<>>)
    /\ [][(self.mode = "eval" /\ self.playout_episode
              /\ StepReturned(TriggerId))
          => self'.episode_image.marks
                = Append(self.episode_image.marks, self.bbox)]_vars
    /\ [][\A a \in TransformerActions :
             (self.mode = "eval" /\ StepReturned(a)) =>
                \A i \in 1 .. Len(self.episode_true_bboxes) :
                   ~RatLess(self'.iou,
                            compute_iou(self'.bbox,
                                        self.episode_true_bboxes[i]))]_vars

\* the window was triggered on the first box and, moved back onto it, still
\* scores IoU 1
C18_Witness ==
    /\ self.mode = "eval"
    /\ self.playout_episode
    /\ \E a \in TransformerActions : LastStepReturned(a)
    /\ self.num_triggers_used = 1
    /\ Len(self.episode_true_bboxes) = 2
    /\ self.episode_pred_bboxes = <<self.episode_true_bboxes[1]>>
    /\ self.episode_image.marks = <<self.episode_true_bboxes[1]>>
    /\ self.bbox = self.episode_true_bboxes[1]
    /\ self.iou = RatInt(1)

----------------------------------------------------------------------------
(* C19 *)

\* C19: whatever state reset is called in, it leaves a fresh episode: empty
\* logs of predicted boxes and trigger IoUs, num_triggers_used and
\* current_step 0, done FALSE, bbox the full image window, no masked index
\* of the previous episode (the list holds one entry per mark premasking
\* drew on the fresh image, none when premasking does not run), and iou =
\* max_iou = the best IoU of the full window against the boxes left
\* unmasked (0 if none).
C19_ResetGivesFreshEpisode ==
    ret.call = "reset" =>
        /\ self.episode_pred_bboxes = <<>>
        /\ self.episode_trigger_ious = <<>>
        /\ self.num_triggers_used = 0
        /\ self.current_step = 0
        /\ ~self.done
        /\ ~ret.done
        /\ self.bbox = <<0, 0, ImageWidth, ImageHeight>>
        /\ Len(self.episode_masked_indices) = Len(self.episode_image.marks)
        /\ \A k \in 1 .. Len(self.episode_masked_indices) :
              self.episode_image.marks[k]
                 = self.episode_true_bboxes[self.episode_masked_indices[k]]
        /\ (~(self.mode = "train" /\ self.premasking)
               => self.episode_masked_indices = <<>>)
        /\ self.iou = BestIoUOf(self, <<0, 0, ImageWidth, ImageHeight>>)
        /\ self.max_iou = self.iou

\* a reset that premasked the only box of the one-box image: iou starts at 0
C19_Witness ==
    /\ ret.call = "reset"
    /\ self.current_step = 0
    /\ Len(self.episode_true_bboxes) = 1
    /\ self.episode_masked_indices = <<1>>
    /\ self.iou = RatInt(0)
    /\ self.max_iou = RatInt(0)

----------------------------------------------------------------------------
(* C20 *)

\* C20: in training mode with playout and termination enabled, whenever a
\* terminate step earns the positive reward every ground-truth box index is
\* masked, with or without premasking.
C20_PositiveTerminationMeansAllMasked ==
    (/\ self.mode = "train"
     /\ self.playout_episode
     /\ self.has_termination_action
     /\ LastStepReturned(TerminateId)
     /\ RatLess(RatInt(0), ret.reward))
    => UnmaskedIndices(self) = {}

\* after premasking one of two boxes, two triggers and terminate earned the
\* positive reward
C20_Witness ==
    /\ self.mode = "train"
    /\ self.playout_episode
    /\ self.has_termination_action
    /\ self.premasking
    /\ LastStepReturned(TerminateId)
    /\ RatLess(RatInt(0), ret.reward)
    /\ Len(self.episode_true_bboxes) = 2
    /\ Len(self.episode_image.marks) = 2
    /\ self.num_triggers_used = 2

\* the converse fails: every box masked, one of them by premasking, and
\* terminate earned the negative reward
C20_AllMaskedButNegative ==
    /\ self.mode = "train"
    /\ self.playout_episode
    /\ self.has_termination_action
    /\ LastStepReturned(TerminateId)
    /\ RatLess(ret.reward, RatInt(0))
    /\ Len(self.episode_true_bboxes) = 2
    /\ UnmaskedIndices(self) = {}
    /\ self.num_triggers_used = 1

====
